---- MODULE Spec2Model ----
(***************************************************************************)
(* Model of the DOM-Clobbering rewriter: the operator tables and replacers *)
(* of module `replacer`, and the mock factories, mapMocksToObject and the  *)
(* importCode generation of module `mocks`.                                *)
(*                                                                         *)
(* A JavaScript object used as a table is a sequence of <<key, value>>     *)
(* pairs in insertion order, which is the order `for (k in o)` visits.     *)
(* A JavaScript value is a record tagged by its field k.                   *)
(***************************************************************************)
EXTENDS Integers, Sequences, FiniteSets, TLC

VARIABLES
    obj,          \* the object mapMocksToObject maps the mocks to (key/value table)
    mapStatus,    \* "idle", "returned" or "threw": how mapMocksToObject(obj) ended
    importCode,   \* the names the generated blob defines, in order
    importStatus, \* "idle", "done" or "failed": the module-level generation loop
    thisHasVars,  \* whether the module's top-level `this` carries its var bindings
    ret,          \* the record of the last mock call / expression evaluation
    tree,         \* the syntax tree under rewriting: node id -> node
    visited       \* the node ids the rewriting pass has been applied to

vars == <<obj, mapStatus, importCode, importStatus, thisHasVars, ret, tree, visited>>

(***************************************************************************)
(* Bounds of the model.                                                    *)
(***************************************************************************)
MaxNum == 1      \* numeric operands are 0..MaxNum
MaxNodes == 2    \* operator nodes stacked above the leaf of a tree

(***************************************************************************)
(* replacer: the operator tables.                                          *)
(***************************************************************************)
Syntax ==
    [Identifier |-> "Identifier", ExpressionStatement |-> "ExpressionStatement",
     CallExpression |-> "CallExpression", UnaryExpression |-> "UnaryExpression",
     BinaryExpression |-> "BinaryExpression", LogicalExpression |-> "LogicalExpression",
     UpdateExpression |-> "UpdateExpression"]

unaryOperatorNames ==
    << <<"~", "__bitwise_not__">>, <<"!", "__logical_not__">>,
       <<"typeof", "__typeof__">>, <<"++", "__increment__">>,
       <<"--", "__decrement__">> >>

binaryOperatorNames ==
    << <<"==", "__double_equal__">>, <<"===", "__triple_equal__">>,
       <<"!=", "__double_inequal__">>, <<"!==", "__triple_inequal__">>,
       <<"+", "__plus__">>, <<"-", "__minus__">>, <<"*", "__multiply__">>,
       <<"/", "__divide__">>, <<"%", "__modulus__">>,
       <<"&", "__bitwise_and__">>, <<"|", "__bitwise_or__">>, <<"^", "__xor__">>,
       <<">>", "__shift_right__">>, <<"<<", "__shift_left__">>,
       <<"&&", "__logical_and__">>, <<"||", "__logical_or__">>,
       <<">", "__greater__">>, <<"<", "__lesser__">>,
       <<">=", "__greater_equal__">>, <<"<=", "__lesser_equal__">> >>

functionNames == << <<"eval", "__eval__">> >>

\* _.has(table, key)
Has(table, key) == \E i \in DOMAIN table : table[i][1] = key

\* table[key]; "undefined" for a missing key
Get(table, key) ==
    IF Has(table, key)
    THEN table[CHOOSE i \in DOMAIN table : table[i][1] = key][2]
    ELSE "undefined"

\* table[key] = val: an existing key keeps its place, a new key goes last
Put(table, key, val) ==
    IF Has(table, key)
    THEN [i \in DOMAIN table |-> IF table[i][1] = key THEN <<key, val>> ELSE table[i]]
    ELSE Append(table, <<key, val>>)

Keys(table) == {table[i][1] : i \in DOMAIN table}

RECURSIVE copyFrom(_, _, _)
copyFrom(i, src, dst) ==
    IF i > Len(src) THEN dst
    ELSE copyFrom(i + 1, src, Put(dst, src[i][1], src[i][2]))

\* shallow copies all the values from src to dst
copyObject(src, dst) == copyFrom(1, src, dst)

\* the mutant: the three tables copied in another order (eval last)
replacerNamesEvalLast ==
    copyObject(functionNames,
        copyObject(binaryOperatorNames, copyObject(unaryOperatorNames, <<>>)))

replacerNames ==
    copyObject(binaryOperatorNames,
        copyObject(unaryOperatorNames, copyObject(functionNames, <<>>)))

isUnaryOperator(op) == Has(unaryOperatorNames, op)
isBinaryOperator(op) == Has(binaryOperatorNames, op)
isFunction(func) == Has(functionNames, func)

\* what module replacer exports
ReplacerExports ==
    {"replacers", "replacerNames", "isUnaryOperator", "isBinaryOperator", "isFunction"}

\* require('replacer').<name>: a name the module does not export is undefined
RequireReplacer(name) == IF name \in ReplacerExports THEN name ELSE "undefined"

(***************************************************************************)
(* JavaScript values and the native operators the mocks encapsulate.       *)
(***************************************************************************)
Null == [k |-> "null"]
Undefined == [k |-> "undefined"]
NaN == [k |-> "nan"]
Bool(b) == [k |-> "bool", b |-> b]
Num(n) == [k |-> "num", n |-> n]
Str(s) == [k |-> "str", s |-> s]
\* a thrown error, as the outcome of a call
Throw(e) == [k |-> "throw", err |-> e]

StrPool == {"a"}
TaintNames == {"base", "src"}

RawValues ==
    {Null, Undefined} \cup {Bool(b) : b \in BOOLEAN}
        \cup {Num(n) : n \in 0..MaxNum} \cup {Str(s) : s \in StrPool}

Digit(d) ==
    CASE d = 0 -> "0" [] d = 1 -> "1" [] d = 2 -> "2" [] d = 3 -> "3" [] d = 4 -> "4"
      [] d = 5 -> "5" [] d = 6 -> "6" [] d = 7 -> "7" [] d = 8 -> "8" [] d = 9 -> "9"

RECURSIVE IntToStr(_)
IntToStr(n) ==
    IF n < 0 THEN "-" \o IntToStr(-n)
    ELSE IF n < 10 THEN Digit(n)
    ELSE IntToStr(n \div 10) \o Digit(n % 10)

\* v.toString(): a property read on null or undefined raises a TypeError
ToStringCall(v) ==
    CASE v.k \in {"null", "undefined"} -> Throw("TypeError")
      [] v.k = "bool" -> Str(IF v.b THEN "true" ELSE "false")
      [] v.k = "num" -> Str(IntToStr(v.n))
      [] v.k = "str" -> v
      [] v.k = "nan" -> Str("NaN")

\* ToNumber of a primitive (the strings of StrPool are not numeric)
ToNumber(v) ==
    CASE v.k = "null" -> Num(0)
      [] v.k = "undefined" -> NaN
      [] v.k = "bool" -> Num(IF v.b THEN 1 ELSE 0)
      [] v.k = "num" -> v
      [] v.k = "str" -> IF v.s = "" THEN Num(0) ELSE NaN
      [] v.k = "nan" -> NaN

\* ToBoolean of a primitive
Truthy(v) ==
    CASE v.k \in {"null", "undefined", "nan"} -> FALSE
      [] v.k = "bool" -> v.b
      [] v.k = "num" -> v.n # 0
      [] v.k = "str" -> v.s # ""

TypeOf(v) ==
    CASE v.k = "null" -> "object"
      [] v.k = "undefined" -> "undefined"
      [] v.k = "bool" -> "boolean"
      [] v.k \in {"num", "nan"} -> "number"
      [] v.k = "str" -> "string"

\* x + d for a number x, NaN staying NaN
AddNum(x, d) == IF x.k = "nan" THEN NaN ELSE Num(x.n + d)

\* new Function('x', 'return ' + op + ' x;'): the parameter x is local to it
UnaryOpFunc(op, x) ==
    CASE op = "!" -> Bool(~Truthy(x))
      [] op = "~" -> IF ToNumber(x).k = "nan" THEN Num(-1) ELSE Num(-(ToNumber(x).n) - 1)
      [] op = "typeof" -> Str(TypeOf(x))
      [] op = "++" -> AddNum(ToNumber(x), 1)
      [] op = "--" -> AddNum(ToNumber(x), -1)

StrictEquals(x, y) == x = y /\ x.k # "nan"

LooseEquals(x, y) ==
    IF x.k = y.k THEN StrictEquals(x, y)
    ELSE IF x.k \in {"null", "undefined"} \/ y.k \in {"null", "undefined"}
    THEN x.k \in {"null", "undefined"} /\ y.k \in {"null", "undefined"}
    ELSE ToNumber(x).k = "num" /\ ToNumber(x) = ToNumber(y)

\* new Function('x', 'y', 'return x ' + op + ' y;'). The equality and logical
\* operators are evaluated; an arithmetic, bitwise or relational operator is
\* kept as the application of op to its two operands, in their order.
BinaryOpFunc(op, x, y) ==
    CASE op = "===" -> Bool(StrictEquals(x, y))
      [] op = "!==" -> Bool(~StrictEquals(x, y))
      [] op = "==" -> Bool(LooseEquals(x, y))
      [] op = "!=" -> Bool(~LooseEquals(x, y))
      [] op = "&&" -> IF Truthy(x) THEN y ELSE x
      [] op = "||" -> IF Truthy(x) THEN x ELSE y
      [] OTHER -> [k |-> "app", op |-> op, x |-> x, y |-> y]

\* new Function('x', 'return ' + funcName + '(x)'): eval returns a value that
\* is not a string as it is, and the result of running a string as code
FunctionOpFunc(funcName, x) ==
    IF x.k = "str" THEN [k |-> "app", op |-> funcName, x |-> x, y |-> Undefined] ELSE x

(***************************************************************************)
(* The taint substrate (module proxy).                                     *)
(***************************************************************************)
buildProxy(raw, name) == [k |-> "proxy", name |-> name, raw |-> raw]

isObjectTainted(v) == v.k = "proxy"

getWrappedObject(v) == v.raw

\* The provenance name of a tainted value. For a value that is not tainted
\* the substrate tracks no name: miss is what the lookup then yields,
\* "undefined" or "throw".
getTaintedName(v, miss) == IF isObjectTainted(v) THEN v.name ELSE miss

MissOutcomes == {"undefined", "throw"}

TaintedValues == {buildProxy(r, n) : r \in RawValues, n \in TaintNames}
Values == RawValues \cup TaintedValues

(***************************************************************************)
(* mocks: the four factories. Each operator is the mock the factory builds *)
(* for op, applied to its arguments.                                       *)
(***************************************************************************)
\* The operand is unwrapped first; the name is then looked up for the
\* unwrapped value.
UnaryOperatorMockFactory(op, o, miss) ==
    IF isObjectTainted(o)
    THEN LET w == getWrappedObject(o)
             n == getTaintedName(w, miss)
         IN  IF n = "throw" THEN Throw("TypeError")
             ELSE buildProxy(UnaryOpFunc(op, w), op \o "(" \o n \o ")")
    ELSE UnaryOpFunc(op, o)

\* The label of an untainted operand is built with .toString() whether or not
\* a label is needed. rightName is assigned without a declaration (the declared
\* name is rigthName): it is written on every call before it is read.
BinaryOperatorMockFactory(op, left, right) ==
    LET l == isObjectTainted(left)
        r == isObjectTainted(right)
        leftStr == IF l THEN Str(getTaintedName(left, "undefined")) ELSE ToStringCall(left)
        rightStr == IF r THEN Str(getTaintedName(right, "undefined")) ELSE ToStringCall(right)
        lv == IF l THEN getWrappedObject(left) ELSE left
        rv == IF r THEN getWrappedObject(right) ELSE right
    IN  IF leftStr.k = "throw" THEN leftStr
        ELSE IF rightStr.k = "throw" THEN rightStr
        ELSE LET leftName == IF l THEN leftStr.s ELSE "value(" \o leftStr.s \o ")"
                 rightName == IF r THEN rightStr.s ELSE "value(" \o rightStr.s \o ")"
             IN  IF l \/ r
                 THEN buildProxy(BinaryOpFunc(op, lv, rv),
                                 op \o "(" \o leftName \o "," \o rightName \o ")")
                 ELSE BinaryOpFunc(op, lv, rv)

FunctionMockFactory(funcName, o) ==
    IF isObjectTainted(o)
    THEN LET name == funcName \o "(" \o getTaintedName(o, "undefined") \o ")"
         IN  buildProxy(FunctionOpFunc(funcName, getWrappedObject(o)), name)
    ELSE FunctionOpFunc(funcName, o)

EqualityOperatorMockFactory(op, left, right) ==
    LET lv == IF isObjectTainted(left) THEN getWrappedObject(left) ELSE left
        rv == IF isObjectTainted(right) THEN getWrappedObject(right) ELSE right
    IN  BinaryOpFunc(op, lv, rv)

(***************************************************************************)
(* mocks: mapMocksToObject.                                                *)
(***************************************************************************)
\* the predicates table, holding what the module's require() calls yielded
predicates ==
    << <<"unary", RequireReplacer("isUnaryOperator")>>,
       <<"binary", RequireReplacer("isBinaryOperator")>>,
       <<"equality", RequireReplacer("isEqualityOperator")>>,
       <<"function", RequireReplacer("isFunction")>> >>

\* predicates[type](name): calling undefined raises a TypeError
CallPredicate(f, name) ==
    CASE f = "isUnaryOperator" -> IF isUnaryOperator(name) THEN "true" ELSE "false"
      [] f = "isBinaryOperator" -> IF isBinaryOperator(name) THEN "true" ELSE "false"
      [] f = "isFunction" -> IF isFunction(name) THEN "true" ELSE "false"
      [] OTHER -> "TypeError"

RECURSIVE selectFrom(_, _)
selectFrom(i, name) ==
    IF i > Len(predicates) THEN "undefined"
    ELSE LET r == CallPredicate(predicates[i][2], name)
         IN  IF r = "TypeError" THEN "TypeError"
             ELSE IF r = "true" THEN predicates[i][1]
             ELSE selectFrom(i + 1, name)

\* the inner loop: the type of the first predicate that holds of name,
\* "undefined" when none does, "TypeError" when a predicate call raised
selectFactory(name) == selectFrom(1, name)

RECURSIVE mapFrom(_, _)
mapFrom(i, o) ==
    IF i > Len(replacerNames) THEN [obj |-> o, status |-> "returned"]
    ELSE LET name == replacerNames[i][1]
             type == selectFactory(name)
         IN  IF type \in {"TypeError", "undefined"}
             THEN [obj |-> o, status |-> "threw"]
             ELSE mapFrom(i + 1, Put(o, replacerNames[i][2], [factory |-> type, op |-> name]))

\* mapMocksToObject(o): the object as the call leaves it, and how the call ended
mapMocksToObject(o) == mapFrom(1, o)

(***************************************************************************)
(* mocks: the generation of importCode at module level.                    *)
(***************************************************************************)
funcImports ==
    <<"markAsMocked", "isMarkedAsMocked", "UnaryOperatorMockFactory",
      "BinaryOperatorMockFactory", "EqualityOperatorMockFactory",
      "FunctionMockFactory", "mapMocksToObject">>

SubstrateNames == {"getWrappedObject", "buildProxy", "isObjectTainted", "getTaintedName"}

\* the names a definition of module mocks reads and does not bind itself
FreeNames(def) ==
    CASE def \in {"markAsMocked", "isMarkedAsMocked"} -> {"mockFunctionKey"}
      [] def \in {"UnaryOperatorMockFactory", "BinaryOperatorMockFactory",
                  "FunctionMockFactory"} -> {"markAsMocked"} \cup SubstrateNames
      [] def = "EqualityOperatorMockFactory" ->
            {"markAsMocked", "isObjectTainted", "getWrappedObject"}
      [] def = "mapMocksToObject" ->
            {"isUnaryOperator", "isBinaryOperator", "isEqualityOperator", "isFunction",
             "UnaryOperatorMockFactory", "BinaryOperatorMockFactory",
             "EqualityOperatorMockFactory", "FunctionMockFactory", "replacerNames"}
      [] OTHER -> {}

\* this[name] at module level: the function when `this` carries the module's
\* var bindings, undefined otherwise
ThisLookup(has, name) == IF has THEN name ELSE "undefined"

\* variableDefToCode(value, name): the source text binding name; the blob is
\* kept as the list of the names it defines
variableDefToCode(value, name) == name

\* functionDefToCode(f, name): the source text defining name as f; asked for
\* a function that has no live definition, it fails
functionDefToCode(f, name) == IF f = "undefined" THEN "fatal" ELSE name

RECURSIVE importFrom(_, _, _)
importFrom(i, has, code) ==
    IF i > Len(funcImports) THEN [code |-> code, status |-> "done"]
    ELSE LET def == functionDefToCode(ThisLookup(has, funcImports[i]), funcImports[i])
         IN  IF def = "fatal" THEN [code |-> code, status |-> "failed"]
             ELSE importFrom(i + 1, has, Append(code, def))

\* the blob: the marker binding, then one definition per name of funcImports
buildImportCode(has) ==
    importFrom(1, has, <<variableDefToCode("__is_mock_function__", "mockFunctionKey")>>)

(***************************************************************************)
(* replacer: syntax nodes and the replacers.                               *)
(***************************************************************************)
NoRef == -1
NoCallee == [type |-> "undefined", name |-> "undefined"]

MkNode(type, operator, prefix, argument, left, right) ==
    [type |-> type, operator |-> operator, prefix |-> prefix, callee |-> NoCallee,
     argument |-> argument, left |-> left, right |-> right, arguments |-> <<>>]

CallNode(name, args) ==
    [type |-> Syntax.CallExpression, operator |-> "undefined", prefix |-> FALSE,
     callee |-> [type |-> Syntax.Identifier, name |-> name],
     argument |-> NoRef, left |-> NoRef, right |-> NoRef, arguments |-> args]

Leaf == MkNode(Syntax.Identifier, "undefined", FALSE, NoRef, NoRef, NoRef)

UnaryPredicate(op, node) ==
    (node.type = Syntax.UnaryExpression \/ node.type = Syntax.UpdateExpression)
        /\ node.operator = op

\* the mutant: the node keeps its type
UnaryReplaceKeepsType(opReplacerName, node) ==
    [node EXCEPT !.callee = [type |-> Syntax.Identifier, name |-> opReplacerName],
                 !.arguments = <<node.argument>>]

UnaryReplace(opReplacerName, node) ==
    [node EXCEPT !.type = Syntax.CallExpression,
                 !.callee = [type |-> Syntax.Identifier, name |-> opReplacerName],
                 !.arguments = <<node.argument>>]

BinaryPredicate(op, node) ==
    (node.type = Syntax.BinaryExpression \/ node.type = Syntax.LogicalExpression)
        /\ node.operator = op

BinaryReplace(opReplacerName, node) ==
    [node EXCEPT !.type = Syntax.CallExpression,
                 !.callee = [type |-> Syntax.Identifier, name |-> opReplacerName],
                 !.arguments = <<node.left, node.right>>]

FunctionPredicate(func, node) ==
    node.type = Syntax.CallExpression /\ node.callee.name = func

FunctionReplace(funcReplacerName, node) ==
    [node EXCEPT !.callee.name = funcReplacerName]

\* the replacers of one table, in the table's order
FactoryAll(type, names) == [i \in DOMAIN names |-> [type |-> type, op |-> names[i][1], name |-> names[i][2]]]

createAllReplacers ==
    FactoryAll("unary", unaryOperatorNames) \o FactoryAll("binary", binaryOperatorNames)
        \o FactoryAll("function", functionNames)

replacers == createAllReplacers

\* replacer.predicate(node)
Predicate(r, node) ==
    CASE r.type = "unary" -> UnaryPredicate(r.op, node)
      [] r.type = "binary" -> BinaryPredicate(r.op, node)
      [] r.type = "function" -> FunctionPredicate(r.op, node)

\* replacer.replace(node)
Replace(r, node) ==
    CASE r.type = "unary" -> UnaryReplace(r.name, node)
      [] r.type = "binary" -> BinaryReplace(r.name, node)
      [] r.type = "function" -> FunctionReplace(r.name, node)

Matching(node) == {i \in DOMAIN replacers : Predicate(replacers[i], node)}

\* if (replacer.predicate(node)) return replacer.replace(node), over the replacers
ApplyReplacers(node) ==
    IF Matching(node) = {} THEN node
    ELSE Replace(replacers[CHOOSE i \in Matching(node) : \A j \in Matching(node) : i <= j], node)

(***************************************************************************)
(* Evaluation of an expression, as written and as rewritten.               *)
(***************************************************************************)
\* the mock built by the factory of the given type for op, applied to args
ApplyMock(type, op, args, miss) ==
    CASE type = "unary" -> UnaryOperatorMockFactory(op, args[1], miss)
      [] type = "binary" -> BinaryOperatorMockFactory(op, args[1], args[2])
      [] type = "equality" -> EqualityOperatorMockFactory(op, args[1], args[2])
      [] type = "function" -> FunctionMockFactory(op, args[1])

\* op x, x op: the value of the expression and the value x is left with
NativeUnaryExpression(op, prefix, x) ==
    IF op \in {"++", "--"}
    THEN [value |-> IF prefix THEN UnaryOpFunc(op, x) ELSE ToNumber(x),
          x |-> UnaryOpFunc(op, x)]
    ELSE [value |-> UnaryOpFunc(op, x), x |-> x]

\* the call the unary replacer produces: the operand's value is passed to the mock
RewrittenUnaryExpression(op, prefix, x, miss) ==
    LET node == MkNode(IF op \in {"++", "--"} THEN Syntax.UpdateExpression
                       ELSE Syntax.UnaryExpression, op, prefix, 1, NoRef, NoRef)
        call == ApplyReplacers(node)
    IN  [value |-> ApplyMock(selectFactory(op), op, <<x>>, miss), x |-> x,
         callee |-> call.callee.name, arguments |-> call.arguments]

\* left op right for a logical op: the operands evaluated, in order, and the value
NativeLogicalExpression(op, lv, rv) ==
    [evaluated |-> IF (op = "&&") = Truthy(lv) THEN <<1, 2>> ELSE <<1>>,
     value |-> BinaryOpFunc(op, lv, rv)]

\* the call the binary replacer produces: every argument of a call is evaluated,
\* in order, before the callee runs
RewrittenLogicalExpression(op, lv, rv) ==
    LET call == ApplyReplacers(MkNode(Syntax.LogicalExpression, op, FALSE, NoRef, 1, 2))
    IN  [evaluated |-> call.arguments,
         value |-> ApplyMock(selectFactory(op), op, <<lv, rv>>, "undefined")]

(***************************************************************************)
(* The trees a parser hands to the rewriting pass: node 0 is a leaf, node  *)
(* i > 0 is an operator node over node i - 1 (and the leaf, when binary).  *)
(***************************************************************************)
ParserUnaryOps == {"~", "!", "typeof", "-", "void"}
ParserBinaryOps == (Keys(binaryOperatorNames) \ {"&&", "||"}) \cup {"instanceof"}
CalleeNames == {"eval", "f"}

ParserNodes(c) ==
    {MkNode(Syntax.UnaryExpression, op, TRUE, c, NoRef, NoRef) : op \in ParserUnaryOps}
        \cup {MkNode(Syntax.UpdateExpression, op, p, c, NoRef, NoRef) :
                op \in {"++", "--"}, p \in BOOLEAN}
        \cup {MkNode(Syntax.BinaryExpression, op, FALSE, NoRef, c, 0) : op \in ParserBinaryOps}
        \cup {MkNode(Syntax.LogicalExpression, op, FALSE, NoRef, c, 0) : op \in {"&&", "||"}}
        \cup {CallNode(f, <<c>>) : f \in CalleeNames}

RECURSIVE TreesOf(_)
TreesOf(n) ==
    IF n = 0 THEN {[i \in 0..0 |-> Leaf]}
    ELSE {t @@ (n :> node) : t \in TreesOf(n - 1), node \in ParserNodes(n - 1)}

Trees == TreesOf(MaxNodes)

(***************************************************************************)
(* The state machine.                                                      *)
(***************************************************************************)
NoCall == [kind |-> "none"]

InitProgram ==
    /\ obj = <<>>
    /\ mapStatus = "idle"
    /\ importCode = <<>>
    /\ importStatus = "idle"
    /\ ret = NoCall

Init ==
    /\ InitProgram
    /\ thisHasVars \in BOOLEAN
    /\ tree = [i \in 0..0 |-> Leaf]
    /\ visited = {}

\* module mocks is loaded: the module-level loop builds importCode
GenerateImportCode ==
    /\ importStatus = "idle"
    /\ importCode' = buildImportCode(thisHasVars).code
    /\ importStatus' = buildImportCode(thisHasVars).status
    /\ UNCHANGED <<obj, mapStatus, thisHasVars, ret, tree, visited>>

MapMocksToObject ==
    /\ importStatus # "idle"
    /\ mapStatus = "idle"
    /\ obj' = mapMocksToObject(obj).obj
    /\ mapStatus' = mapMocksToObject(obj).status
    /\ UNCHANGED <<importCode, importStatus, thisHasVars, ret, tree, visited>>

\* the mocks are called once the namespace has been set up
CanCall == mapStatus # "idle" /\ ret = NoCall

Called(kind, op, args, result) == [kind |-> kind, op |-> op, args |-> args, result |-> result]

CallUnaryMock ==
    /\ CanCall
    /\ \E op \in Keys(unaryOperatorNames), a \in Values, miss \in MissOutcomes :
        ret' = Called("unary", op, <<a>>, UnaryOperatorMockFactory(op, a, miss))
    /\ UNCHANGED <<obj, mapStatus, importCode, importStatus, thisHasVars, tree, visited>>

CallBinaryMock ==
    /\ CanCall
    /\ \E op \in Keys(binaryOperatorNames), a \in Values, b \in Values :
        ret' = Called("binary", op, <<a, b>>, BinaryOperatorMockFactory(op, a, b))
    /\ UNCHANGED <<obj, mapStatus, importCode, importStatus, thisHasVars, tree, visited>>

EqualityOps == {"==", "===", "!=", "!=="}

CallEqualityMock ==
    /\ CanCall
    /\ \E op \in EqualityOps, a \in Values, b \in Values :
        ret' = Called("equality", op, <<a, b>>, EqualityOperatorMockFactory(op, a, b))
    /\ UNCHANGED <<obj, mapStatus, importCode, importStatus, thisHasVars, tree, visited>>

CallFunctionMock ==
    /\ CanCall
    /\ \E op \in Keys(functionNames), a \in Values :
        ret' = Called("function", op, <<a>>, FunctionMockFactory(op, a))
    /\ UNCHANGED <<obj, mapStatus, importCode, importStatus, thisHasVars, tree, visited>>

\* a unary expression over an untainted variable x (postfix only for ++ and --)
EvalUnaryExpression ==
    /\ CanCall
    /\ \E op \in Keys(unaryOperatorNames), x \in RawValues, miss \in MissOutcomes :
        \E prefix \in (IF op \in {"++", "--"} THEN BOOLEAN ELSE {TRUE}) :
            ret' = Called("unaryExpr", op, <<x>>,
                          [prefix |-> prefix, orig |-> NativeUnaryExpression(op, prefix, x),
                           rew |-> RewrittenUnaryExpression(op, prefix, x, miss)])
    /\ UNCHANGED <<obj, mapStatus, importCode, importStatus, thisHasVars, tree, visited>>

\* a logical expression over two untainted operands
EvalLogicalExpression ==
    /\ CanCall
    /\ \E op \in {"&&", "||"}, lv \in RawValues, rv \in RawValues :
        ret' = Called("logicalExpr", op, <<lv, rv>>,
                      [orig |-> NativeLogicalExpression(op, lv, rv),
                       rew |-> RewrittenLogicalExpression(op, lv, rv)])
    /\ UNCHANGED <<obj, mapStatus, importCode, importStatus, thisHasVars, tree, visited>>

Next ==
    \/ GenerateImportCode
    \/ MapMocksToObject
    \/ CallUnaryMock
    \/ CallBinaryMock
    \/ CallEqualityMock
    \/ CallFunctionMock
    \/ EvalUnaryExpression
    \/ EvalLogicalExpression

Spec == Init /\ [][Next]_vars

\* The rewriting pass over a tree: each node is visited once, in any order.
InitRewrite ==
    /\ InitProgram
    /\ thisHasVars = FALSE
    /\ tree \in Trees
    /\ visited = {}

RewriteNode ==
    \E i \in DOMAIN tree \ visited :
        /\ Matching(tree[i]) # {}
        /\ tree' = [tree EXCEPT ![i] = ApplyReplacers(tree[i])]
        /\ visited' = visited \cup {i}
        /\ UNCHANGED <<obj, mapStatus, importCode, importStatus, thisHasVars, ret>>

PassThrough ==
    \E i \in DOMAIN tree \ visited :
        /\ Matching(tree[i]) = {}
        /\ visited' = visited \cup {i}
        /\ UNCHANGED <<obj, mapStatus, importCode, importStatus, thisHasVars, ret, tree>>

NextRewrite == RewriteNode \/ PassThrough

SpecRewrite == InitRewrite /\ [][NextRewrite]_vars

(***************************************************************************)
(* The properties.                                                         *)
(***************************************************************************)
Unwrapped(v) == IF isObjectTainted(v) THEN getWrappedObject(v) ELSE v

\* String(v): the string form of a primitive, defined for null and undefined too
StringForm(v) ==
    CASE v.k = "null" -> "null"
      [] v.k = "undefined" -> "undefined"
      [] OTHER -> ToStringCall(v).s

\* the Repr of an operand in a provenance label
Repr(v) == IF isObjectTainted(v) THEN v.name ELSE "value(" \o StringForm(v) \o ")"

ReplacementName(sym) == Get(replacerNames, sym)

Bindings(o, name) == {i \in DOMAIN o : o[i][1] = name}

AllInstalled(o) == \A sym \in Keys(replacerNames) : Bindings(o, ReplacementName(sym)) # {}

NoneInstalled(o) == \A sym \in Keys(replacerNames) : Bindings(o, ReplacementName(sym)) = {}

\* C1 (as claimed): once mapMocksToObject(obj) has ended, obj holds under the
\* replacement name of each of ==, ===, !=, !== a mock that, for every pair of
\* operands (neither, either or both tainted), returns an untainted value equal
\* to the native operator applied to the unwrapped operands.
C1_EqualityMocksNeverTaint ==
    mapStatus # "idle" =>
        \A op \in EqualityOps :
            /\ Bindings(obj, ReplacementName(op)) # {}
            /\ LET m == Get(obj, ReplacementName(op))
               IN  \A a \in Values, b \in Values :
                       LET r == ApplyMock(m.factory, m.op, <<a, b>>, "undefined")
                       IN  /\ ~isObjectTainted(r)
                           /\ r = BinaryOpFunc(op, Unwrapped(a), Unwrapped(b))

\* C2 (as claimed): a binary mock of a non-equality operator, called with two
\* untainted operands (null and undefined included), returns the native result
\* itself: no error of its own, no taint wrapper.
C2_UntaintedBinaryIsNative ==
    (ret.kind = "binary" /\ ret.op \notin EqualityOps
        /\ ~isObjectTainted(ret.args[1]) /\ ~isObjectTainted(ret.args[2]))
    => ret.result = BinaryOpFunc(ret.op, ret.args[1], ret.args[2])

\* C3 (as claimed): a binary mock of a non-equality operator, called with
\* exactly one tainted operand, returns the native result of the unwrapped
\* operands wrapped with provenance op(leftRepr,rightRepr).
C3_BinaryPropagation ==
    (ret.kind = "binary" /\ ret.op \notin EqualityOps
        /\ isObjectTainted(ret.args[1]) # isObjectTainted(ret.args[2]))
    => ret.result =
         buildProxy(BinaryOpFunc(ret.op, Unwrapped(ret.args[1]), Unwrapped(ret.args[2])),
                    ret.op \o "(" \o Repr(ret.args[1]) \o "," \o Repr(ret.args[2]) \o ")")

\* C4 (as claimed): a unary mock or the eval mock, called with an input tainted
\* with provenance P, returns a tainted value with provenance exactly op(P).
C4_UnaryPropagation ==
    (ret.kind \in {"unary", "function"} /\ isObjectTainted(ret.args[1]))
    => /\ isObjectTainted(ret.result)
       /\ ret.result.name = ret.op \o "(" \o ret.args[1].name \o ")"

\* the nodes a parser produces for an occurrence of a symbol
Occurrences(sym) ==
    IF isUnaryOperator(sym)
    THEN {MkNode(IF sym \in {"++", "--"} THEN Syntax.UpdateExpression
                 ELSE Syntax.UnaryExpression, sym, p, 0, NoRef, NoRef) : p \in BOOLEAN}
    ELSE IF isBinaryOperator(sym)
    THEN {MkNode(IF sym \in {"&&", "||"} THEN Syntax.LogicalExpression
                 ELSE Syntax.BinaryExpression, sym, FALSE, NoRef, 0, 0)}
    ELSE {CallNode(sym, <<0>>)}

\* C5 (as claimed): every symbol of replacerNames is matched by exactly one
\* replacer and, once mapMocksToObject(obj) has ended, has exactly one mock in
\* obj under its replacement name.
C5_PartitionCoverage ==
    mapStatus # "idle" =>
        \A sym \in Keys(replacerNames) :
            /\ \A n \in Occurrences(sym) : Cardinality(Matching(n)) = 1
            /\ Cardinality(Bindings(obj, ReplacementName(sym))) = 1

\* every node of a tree: the nodes themselves and the callee nodes they hold
NodesOf(t) == {t[i] : i \in DOMAIN t} \cup ({t[i].callee : i \in DOMAIN t} \ {NoCallee})

\* C6: a node the pass has been applied to satisfies the predicate of no
\* replacer, nor does its callee; and when the pass is over no node of the tree
\* does, so that a second pass leaves every node as it is.
C6_RewriteStability ==
    /\ \A i \in visited : Matching(tree[i]) = {}
    /\ visited = DOMAIN tree =>
          /\ \A n \in NodesOf(tree) : Matching(n) = {}
          /\ [i \in DOMAIN tree |-> ApplyReplacers(tree[i])] = tree

\* C6 witness: the pass is over and has produced a call node of each factory,
\* the operator nodes still holding their operator
C6_Witness ==
    /\ visited = DOMAIN tree
    /\ \E i \in DOMAIN tree, j \in DOMAIN tree :
          /\ tree[i].type = Syntax.CallExpression /\ tree[i].operator = "++"
          /\ tree[i].callee.name = "__increment__"
          /\ tree[j].type = Syntax.CallExpression /\ tree[j].callee.name = "__eval__"

\* C7 (as claimed): for an untainted variable x, the rewritten call yields the
\* value of the original unary expression and leaves x with the same value.
C7_UnaryNativeBehaviour ==
    ret.kind = "unaryExpr" =>
        /\ ret.result.rew.value = ret.result.orig.value
        /\ ret.result.rew.x = ret.result.orig.x

Defined(code) == {code[i] : i \in DOMAIN code}

\* C9 (as claimed): the generation ends with a blob that defines the marker
\* binding and every function of funcImports, and every free name of the
\* definitions in the blob is defined in the blob.
C9_SelfContainedBlob ==
    importStatus # "idle" =>
        /\ importStatus = "done"
        /\ "mockFunctionKey" \in Defined(importCode)
        /\ \A i \in DOMAIN funcImports : funcImports[i] \in Defined(importCode)
        /\ \A d \in Defined(importCode) : FreeNames(d) \subseteq Defined(importCode)

\* C10 (as claimed): for untainted operands the rewritten && / || evaluates
\* the same operands, in the same order, as the original expression.
C10_ShortCircuit ==
    ret.kind = "logicalExpr" => ret.result.rew.evaluated = ret.result.orig.evaluated

====
